---- MODULE Spec2Model ----
(***************************************************************************)
(* Model of the daily AI news digest pipeline                              *)
(*   src/news_automation_tele.py   two-phase variant ("tele")              *)
(*   src/news_automation_fixed.py  agent variant ("fixed")                 *)
(*                                                                         *)
(* main_flow runs generate_news and then to_telegram, both Prefect tasks   *)
(* declared with retries=3.                                                *)
(*                                                                         *)
(* Representation of Python strings.                                       *)
(*  - A message text (news, a chunk) is a sequence of characters in which  *)
(*    a long run of ordinary letters is abbreviated by one block token:    *)
(*    "B3996" stands for 3996 letters, "B3999" for 3999 letters.  CharLen  *)
(*    gives the number of characters a token stands for, StrLen is len().  *)
(*    Blocks hold no newline and no blank, so split('\n\n') and strip()    *)
(*    act on the tokens exactly as they act on the characters.             *)
(*  - An error text (str(e), a raised message) is a sequence of words; the *)
(*    words are cut so that every keyword the code looks for with `in` is  *)
(*    a word of its own, hence `kw in s` is membership of kw in s.         *)
(***************************************************************************)
EXTENDS Integers, Sequences, FiniteSets, TLC

VARIABLES
    variant,            \* which source file runs: "tele" or "fixed"
    TELEGRAM_TOKEN,     \* os.getenv("TELEGRAM_TOKEN")
    TELEGRAM_CHAT_ID,   \* os.getenv("TELEGRAM_CHAT_ID")
    pc,                 \* position of main_flow
    news,               \* value returned by generate_news (NoNews before)
    gen_runs,           \* executions of generate_news in this run
    tg_runs,            \* executions of to_telegram in this run
    llm_calls,          \* calls of the language model in this run
    search,             \* generate_news (tele): the two results of search_news_in_ddgs
    raw_error,          \* str(e) of the exception last caught by a stage
    stage_error,        \* message of the exception last raised by a stage
    flow_error,         \* message of the exception raised by main_flow
    message_to_send,    \* to_telegram: the chunk list
    i,                  \* to_telegram: chunks already handled by the sending loop
    posts,              \* to_telegram: the POSTs of the current execution
    sleeps,             \* to_telegram: time.sleep(1) calls of the current execution
    delivered,          \* per finished execution of to_telegram: chunks answered 200
    sent_ok             \* the chunks answered 200 in this run, in the order of their POSTs

vars == <<variant, TELEGRAM_TOKEN, TELEGRAM_CHAT_ID, pc, news, gen_runs, tg_runs,
          llm_calls, search, raw_error, stage_error, flow_error, message_to_send,
          i, posts, sleeps, delivered, sent_ok>>

----------------------------------------------------------------------------
(* Bounds and program constants *)

\* longest input text, in tokens, of the chunking specification
MaxTokens == 6

\* MAX_LENGTH = 4000
MAX_LENGTH == 4000

\* @task(..., retries=3, retry_delay_seconds=5)
TaskRetries == 3

----------------------------------------------------------------------------
(* Texts *)

NL == "\n"
SEP == <<NL, NL>>
Whitespace == {NL, " "}

\* the placeholder answer of the agent variant
PLACEHOLDER == "Sorry, I am unable to process that scheduling request right now."

CharLen(t) ==
    CASE t = "B3996" -> 3996
      [] t = "B3999" -> 3999
      [] t = PLACEHOLDER -> 65
      [] OTHER -> 1

RECURSIVE StrLen(_)
StrLen(s) == IF s = <<>> THEN 0 ELSE CharLen(Head(s)) + StrLen(Tail(s))

\* s.split('\n\n'): left to right, non-overlapping separators
RECURSIVE SplitFrom(_, _, _)
SplitFrom(s, k, cur) ==
    IF k > Len(s) THEN <<cur>>
    ELSE IF k < Len(s) /\ s[k] = NL /\ s[k + 1] = NL
         THEN <<cur>> \o SplitFrom(s, k + 2, <<>>)
         ELSE SplitFrom(s, k + 1, Append(cur, s[k]))

Split(s) == SplitFrom(s, 1, <<>>)

\* s.strip()
RECURSIVE LStrip(_)
LStrip(s) == IF s # <<>> /\ Head(s) \in Whitespace THEN LStrip(Tail(s)) ELSE s

RECURSIVE RStrip(_)
RStrip(s) ==
    IF s # <<>> /\ s[Len(s)] \in Whitespace THEN RStrip(SubSeq(s, 1, Len(s) - 1)) ELSE s

Strip(s) == RStrip(LStrip(s))

----------------------------------------------------------------------------
(* to_telegram: chunking (lines 230-256 of tele, 218-244 of fixed) *)

\* len(current_chunks) + len(part) + 2 < MAX_LENGTH
Fits(current, part) == StrLen(current) + StrLen(part) + 2 < MAX_LENGTH

\* current_chunks += part + "\n\n"
AppendPart_NoSep(current, part) == current \o part

AppendPart(current, part) == current \o part \o SEP

\* current_chunks = part + "\n\n"
NewBuffer_Drop(part) == <<>>

NewBuffer(part) == part \o SEP

\* if current_chunks.strip(): message_to_send.append(current_chunks)
Flush(out, current) == IF Strip(current) # <<>> THEN Append(out, current) ELSE out

\* the for loop over parts, from part k on; the result is the pair of
\* message_to_send and current_chunks when the loop ends
RECURSIVE ChunkLoop(_, _, _, _)
ChunkLoop(parts, k, out, current) ==
    IF k > Len(parts) THEN [out |-> out, current |-> current]
    ELSE IF Fits(current, parts[k])
         THEN ChunkLoop(parts, k + 1, out, AppendPart(current, parts[k]))
         ELSE ChunkLoop(parts, k + 1, Flush(out, current), NewBuffer(parts[k]))

\* message_to_send as the sending loop finds it
BuildMessages(text) ==
    IF StrLen(text) <= MAX_LENGTH THEN <<text>>
    ELSE LET r == ChunkLoop(Split(text), 1, <<>>, <<>>)
         IN  Flush(r.out, r.current)

----------------------------------------------------------------------------
(* Error texts.  The leading emoji of each message is left out. *)

Secrets == {"AIzaSyKEY", "bot123:abc"}

\* str.lower() on a word
LowerWord(w) ==
    CASE w = "Quota" -> "quota"
      [] w = "API_KEY" -> "api_key"
      [] w = "Timeout" -> "timeout"
      [] w = "SAFETY" -> "safety"
      [] w = "Connection" -> "connection"
      [] w = "SSL" -> "ssl"
      [] w = "AIzaSyKEY" -> "aizasykey"
      [] w = "Error:" -> "error:"
      [] w = "News" -> "news"
      [] w = "Generation" -> "generation"
      [] w = "Telegram" -> "telegram"
      [] w = "Send" -> "send"
      [] w = "Google" -> "google"
      [] w = "AI" -> "ai"
      [] w = "API" -> "api"
      [] w = "API." -> "api."
      [] w = "Key" -> "key"
      [] w = "Exceeded." -> "exceeded."
      [] w = "Request" -> "request"
      [] w = "Failed:" -> "failed:"
      [] w = "Failed" -> "failed"
      [] w = "No" -> "no"
      [] w = "Search" -> "search"
      [] w = "Results" -> "results"
      [] w = "Empty" -> "empty"
      [] w = "Response" -> "response"
      [] w = "Network" -> "network"
      [] w = "Certificate" -> "certificate"
      [] w = "Unknown" -> "unknown"
      [] w = "Ratelimit" -> "ratelimit"
      [] OTHER -> w

\* str(e).lower()
Lower(s) == [k \in 1..Len(s) |-> LowerWord(s[k])]

\* kw in s
Has(s, kw) == \E k \in 1..Len(s) : s[k] = kw

NoError == <<>>

\* messages raised by generate_news
MsgQuota == <<"Error:", "Google", "AI", "API", "Quota", "Exceeded.">>
MsgAuth ==
    <<"Error:", "Google", "API", "Key", "is", "invalid", "or", "has", "restricted",
      "permission", "s.">>
MsgTimeout == <<"Error:", "Request", "to", "Google", "AI", "timed", "out.">>
MsgSafety == <<"Error:", "AI", "response", "was", "blocked", "by", "safety", "filters.">>
MsgGenericHead ==
    <<"Error:", "News", "generation", "failed", "due", "to", "an", "unexpected",
      "system", "issue">>
MsgGeneric == MsgGenericHead \o <<".">>

\* exceptions raised inside the try blocks
ErrNoSearch == <<"News", "Generation", "Failed:", "No", "Search", "Results">>
ErrEmpty == <<"News", "Generation", "Failed:", "Empty", "Response">>
ErrNoNews == <<"News", "Generation", "Failed">>
ErrTgStatus(status) == <<"Telegram", "API", "Error:", ToString(status)>>

\* messages raised by to_telegram
MsgNetwork == <<"Network", "Error:", "Failed", "to", "connect", "to", "Telegram", "API.">>
MsgTgTimeout == <<"Timeout", "Error:", "Telegram", "API", "did", "not", "respond.">>
MsgSSL == <<"SSL", "Error:", "Certificate", "verification", "failed.">>
MsgUnknown == <<"Telegram", "Send", "Failed:", "Unknown", "error", "occurred.">>

\* messages raised by main_flow
FlowGeneration ==
    <<"Flow", "Failed:", "The", "AI", "Agent", "failed", "to", "retrieve", "or",
      "summarize", "the", "news", ".">>
FlowDelivery ==
    <<"Flow", "Failed:", "The", "Telegram", "notification", "service", "encountered",
      "an", "error.">>
FlowTimeout ==
    <<"Flow", "Failed:", "The", "operation", "took", "too", "long", "and", "timed", "out.">>
FlowCritical ==
    <<"Critical", "System", "Failure:", "The", "flow", "crashed", "due", "to", "an",
      "unexpected", "internal", "error.">>

\* generate_news, except block (tele 178-205, fixed 166-193)
GenClassify(v, e) ==
    LET error_str == Lower(e)
    IN  IF Has(error_str, "quota") \/ Has(error_str, "429") THEN MsgQuota
        ELSE IF Has(error_str, "api_key") \/ Has(error_str, "403")
                \/ Has(error_str, "permission") THEN MsgAuth
        ELSE IF Has(error_str, "timeout") \/ Has(error_str, "deadline") THEN MsgTimeout
        ELSE IF Has(error_str, "safety") \/ Has(error_str, "blocked") THEN MsgSafety
        ELSE IF v = "fixed" THEN MsgGenericHead \o <<"->">> \o error_str \o <<".">>
        ELSE MsgGeneric

\* to_telegram, except block (tele 286-305, fixed 274-293)
TgClassify(e) ==
    LET error_str == Lower(e)
    IN  IF Has(error_str, "connection") \/ Has(error_str, "dns") THEN MsgNetwork
        ELSE IF Has(error_str, "timeout") THEN MsgTgTimeout
        ELSE IF Has(error_str, "ssl") THEN MsgSSL
        ELSE MsgUnknown

\* main_flow, except block (tele 339-364, fixed 327-352)
FlowClassify_TimeoutFirst(e) ==
    LET error_str == Lower(e)
    IN  IF Has(error_str, "timeout") THEN FlowTimeout
        ELSE IF Has(error_str, "news") \/ Has(error_str, "generation") THEN FlowGeneration
        ELSE IF Has(error_str, "telegram") \/ Has(error_str, "send") THEN FlowDelivery
        ELSE FlowCritical

FlowClassify_Raw(e) == e

FlowClassify(e) ==
    LET error_str == Lower(e)
    IN  IF Has(error_str, "news") \/ Has(error_str, "generation") THEN FlowGeneration
        ELSE IF Has(error_str, "telegram") \/ Has(error_str, "send") THEN FlowDelivery
        ELSE IF Has(error_str, "timeout") THEN FlowTimeout
        ELSE FlowCritical

----------------------------------------------------------------------------
(* Values of the environment and of the providers *)

\* Python's None, for a credential and for the news
None == "None"
NoNews == <<None>>

\* truth value of a credential string
Truthy(x) == x # None /\ x # ""

Credentials == {None, "", "set"}

\* texts the language model may answer with
ModelTexts ==
    { <<"a">>,
      <<"B3999", NL, NL, "a">>,
      <<"B3996", NL, NL, "B3996", NL, NL, "a">>,
      <<NL, NL, "B3999">> }

\* status codes of the messaging API
StatusCodes == {200, 400, 429}

\* str(e) of what the language model client or the agent may raise
GenRawWords ==
    {"Quota", "429", "API_KEY", "403", "permission", "Timeout", "deadline", "SAFETY",
     "blocked", "boom"}
GenRawErrors == {<<w>> : w \in GenRawWords} \cup {<<w, x>> : w \in GenRawWords, x \in Secrets}

\* str(e) of what requests.post may raise
TgRawWords == {"Connection", "dns", "Timeout", "SSL", "boom"}
TgRawErrors == {<<w>> : w \in TgRawWords} \cup {<<w, "bot123:abc">> : w \in TgRawWords}

\* what DDGS().text does: a list of `items` records, or an exception with text e
SearchOutcomes ==
    { [raised |-> FALSE, items |-> 2, e |-> NoError],
      [raised |-> FALSE, items |-> 0, e |-> NoError],
      [raised |-> TRUE, items |-> 0, e |-> <<"Ratelimit">>],
      [raised |-> TRUE, items |-> 0, e |-> <<"Timeout", "AIzaSyKEY">>],
      [raised |-> TRUE, items |-> 0, e |-> <<"boom">>] }

\* search_news_in_ddgs (tele 32-74): the list, or a constant error string
search_news_in_ddgs(o) ==
    IF ~o.raised THEN [is_str |-> FALSE, items |-> o.items, text |-> ""]
    ELSE LET error_str == Lower(o.e)
         IN  IF Has(error_str, "ratelimit")
             THEN [is_str |-> TRUE, items |-> 0,
                   text |-> "Error: Search rate limit hit. Could not fetch news."]
             ELSE IF Has(error_str, "timeout")
             THEN [is_str |-> TRUE, items |-> 0, text |-> "Error: Search timed out."]
             ELSE [is_str |-> TRUE, items |-> 0,
                   text |-> "Error: Search failed due to an unexpected system error."]

\* isinstance(r, str) or not r
Unusable(r) == r.is_str \/ r.items = 0

\* tele 132: both searches failed or were empty
NoSearchData_Either(r1, r2) == Unusable(r1) \/ Unusable(r2)

NoSearchData(r1, r2) == Unusable(r1) /\ Unusable(r2)

\* response.text of the two-phase variant: a text, "" or None
TeleResponses == ModelTexts \cup {<<>>, NoNews}

\* tele 171: response.text and len(response.text) > 0
TeleHasText(t) == t # NoNews /\ t # <<>> /\ Len(t) > 0

\* the agent's answer (fixed 143): a dict that may hold "output", a string or a
\* list of parts; a part is a dict with "text", a string, or something else
NoOutput == [has_output |-> FALSE, is_list |-> FALSE, text |-> <<>>, parts |-> <<>>]
StrOutput(t) == [has_output |-> TRUE, is_list |-> FALSE, text |-> t, parts |-> <<>>]
ListOutput(ps) == [has_output |-> TRUE, is_list |-> TRUE, text |-> <<>>, parts |-> ps]
Part(kind, t) == [kind |-> kind, text |-> t]

AgentResponses ==
    {NoOutput, StrOutput(<<>>), ListOutput(<<>>)}
    \cup {StrOutput(t) : t \in ModelTexts}
    \cup {ListOutput(<<Part("dict", t)>>) : t \in ModelTexts}
    \cup {ListOutput(<<Part("str", <<"a">>), Part("other", <<>>), Part("dict", <<NL, NL, "B3999">>)>>),
          ListOutput(<<Part("other", <<>>)>>)}

\* fixed 153-160: the text parts of a list answer, concatenated
RECURSIVE CleanedText(_)
CleanedText(ps) ==
    IF ps = <<>> THEN <<>>
    ELSE (IF Head(ps).kind \in {"dict", "str"} THEN Head(ps).text ELSE <<>>)
         \o CleanedText(Tail(ps))

\* fixed 149-164: final_answer
AgentAnswer(r) ==
    IF r.has_output /\ (IF r.is_list THEN Len(r.parts) ELSE Len(r.text)) > 0
    THEN IF r.is_list THEN CleanedText(r.parts) ELSE r.text
    ELSE <<PLACEHOLDER>>

----------------------------------------------------------------------------
(* Prefect: a task declared with retries=3 is run again after a failed       *)
(* execution while the executions so far do not exceed the retries; the      *)
(* call in main_flow raises the last exception once they do.                 *)

MayRetry_Fewer(runs) == runs < TaskRetries

MayRetry(runs) == runs <= TaskRetries

\* where main_flow is after an execution of generate_news raised
GenFailurePc_Continue(runs) == IF MayRetry(runs) THEN "generate" ELSE "dispatch"

GenFailurePc(runs) == IF MayRetry(runs) THEN "generate" ELSE "failed"

\* where main_flow is after an execution of to_telegram raised
TgFailurePc_Swallow(runs) == IF MayRetry(runs) THEN "dispatch" ELSE "done"

TgFailurePc(runs) == IF MayRetry(runs) THEN "dispatch" ELSE "failed"

----------------------------------------------------------------------------
(* to_telegram: the guard and the sending loop *)

\* not TELEGRAM_TOKEN or not TELEGRAM_CHAT_ID
CredentialsMissing_Both(token, chat) == ~Truthy(token) /\ ~Truthy(chat)

CredentialsMissing(token, chat) == ~Truthy(token) \/ ~Truthy(chat)

\* enumerate(message_to_send): the index an execution's sending loop starts at
FirstIndex_Resume == i

FirstIndex == 0

\* for i, news in enumerate(message_to_send): the chunk of iteration i (from 0)
ChunkAt_Reversed(msgs, k) == msgs[Len(msgs) - k]

ChunkAt(msgs, k) == msgs[k + 1]

\* response.status_code == 200
ResponseOk_Any(status) == TRUE

ResponseOk_Inverted(status) == status # 200

ResponseOk(status) == status = 200

\* the POSTs of an execution that were answered 200
Acked(ps) == Cardinality({k \in 1..Len(ps) : ~ps[k].raised /\ ps[k].status = 200})

Post(text, status, raised) == [text |-> text, status |-> status, raised |-> raised]

----------------------------------------------------------------------------
(* The state machine *)

EnvVars == <<variant, TELEGRAM_TOKEN, TELEGRAM_CHAT_ID>>
SendVars == <<message_to_send, i, posts, sleeps, delivered, sent_ok>>

TypeOK ==
    /\ variant \in {"tele", "fixed"}
    /\ TELEGRAM_TOKEN \in Credentials
    /\ TELEGRAM_CHAT_ID \in Credentials
    /\ pc \in {"generate", "summarize", "dispatch", "sending", "handler", "done", "failed"}
    /\ gen_runs \in 0..(TaskRetries + 1)
    /\ tg_runs \in 0..(TaskRetries + 1)
    /\ i \in 0..Len(message_to_send)

\* main_flow is called: nothing has run yet
Init ==
    /\ variant \in {"tele", "fixed"}
    /\ TELEGRAM_TOKEN \in Credentials
    /\ TELEGRAM_CHAT_ID \in Credentials
    /\ pc = "generate"
    /\ news = NoNews
    /\ gen_runs = 0
    /\ tg_runs = 0
    /\ llm_calls = 0
    /\ search = <<>>
    /\ raw_error = NoError
    /\ stage_error = NoError
    /\ flow_error = NoError
    /\ message_to_send = <<>>
    /\ i = 0
    /\ posts = <<>>
    /\ sleeps = 0
    /\ delivered = <<>>
    /\ sent_ok = <<>>

\* generate_news: the except block catches e, raises the classified message;
\* Prefect retries or main_flow's except block re-raises
GenRaise(e, called) ==
    /\ gen_runs' = gen_runs + 1
    /\ llm_calls' = llm_calls + called
    /\ raw_error' = e
    /\ stage_error' = GenClassify(variant, e)
    /\ pc' = GenFailurePc(gen_runs + 1)
    /\ flow_error' = IF pc' = "failed" THEN FlowClassify(stage_error') ELSE flow_error
    /\ search' = <<>>
    /\ UNCHANGED <<EnvVars, news, tg_runs, SendVars>>

\* generate_news returns t; main_flow (tele 325-337) goes on to to_telegram
\* unless t is None
GenReturn(t) ==
    /\ gen_runs' = gen_runs + 1
    /\ llm_calls' = llm_calls + 1
    /\ raw_error' = NoError
    /\ stage_error' = NoError
    /\ news' = t
    /\ IF t # NoNews
       THEN pc' = "dispatch" /\ flow_error' = flow_error
       ELSE pc' = "failed" /\ flow_error' = FlowClassify(ErrNoNews)
    /\ search' = <<>>
    /\ UNCHANGED <<EnvVars, tg_runs, SendVars>>

\* tele 125-130: the two calls of search_news_in_ddgs
TeleSearch ==
    /\ pc = "generate" /\ variant = "tele"
    /\ \E o1 \in SearchOutcomes, o2 \in SearchOutcomes :
         search' = <<search_news_in_ddgs(o1), search_news_in_ddgs(o2)>>
    /\ pc' = "summarize"
    /\ UNCHANGED <<EnvVars, news, gen_runs, tg_runs, llm_calls, raw_error, stage_error,
                   flow_error, SendVars>>

\* tele 132-134: both searches failed or were empty; no model call
TeleNoSearchData ==
    /\ pc = "summarize"
    /\ NoSearchData(search[1], search[2])
    /\ GenRaise(ErrNoSearch, 0)

\* tele 136-167: the client or the model call raises
TeleModelRaises ==
    /\ pc = "summarize"
    /\ ~NoSearchData(search[1], search[2])
    /\ \E e \in GenRawErrors : GenRaise(e, 1)

\* tele 167-176: the model answers
TeleModelAnswers ==
    /\ pc = "summarize"
    /\ ~NoSearchData(search[1], search[2])
    /\ \E t \in TeleResponses :
         IF TeleHasText(t) THEN GenReturn(t) ELSE GenRaise(ErrEmpty, 1)

\* fixed 130-145: building or running the agent raises
AgentRaises ==
    /\ pc = "generate" /\ variant = "fixed"
    /\ \E e \in GenRawErrors : GenRaise(e, 1)

\* fixed 143-164: the agent answers
AgentAnswers ==
    /\ pc = "generate" /\ variant = "fixed"
    /\ \E r \in AgentResponses : GenReturn(AgentAnswer(r))

\* tele 220-224: a credential is missing, to_telegram returns at once
ToTelegramNoCredentials ==
    /\ pc = "dispatch"
    /\ CredentialsMissing(TELEGRAM_TOKEN, TELEGRAM_CHAT_ID)
    /\ tg_runs' = tg_runs + 1
    /\ message_to_send' = <<>>
    /\ i' = 0
    /\ posts' = <<>>
    /\ sleeps' = 0
    /\ delivered' = Append(delivered, 0)
    /\ pc' = "done"
    /\ UNCHANGED <<EnvVars, news, gen_runs, llm_calls, search, raw_error, stage_error,
                   flow_error, sent_ok>>

\* tele 226-256: an execution of to_telegram starts and builds message_to_send
ToTelegramChunk ==
    /\ pc = "dispatch"
    /\ ~CredentialsMissing(TELEGRAM_TOKEN, TELEGRAM_CHAT_ID)
    /\ tg_runs' = tg_runs + 1
    /\ message_to_send' = BuildMessages(news)
    /\ i' = FirstIndex
    /\ posts' = <<>>
    /\ sleeps' = 0
    /\ IF message_to_send' = <<>>
       THEN pc' = "done" /\ delivered' = Append(delivered, 0)
       ELSE pc' = "sending" /\ delivered' = delivered
    /\ UNCHANGED <<EnvVars, news, gen_runs, llm_calls, search, raw_error, stage_error,
                   flow_error, sent_ok>>

\* to_telegram: the except block catches e (tele 286-305)
TgRaise(e, sent) ==
    /\ posts' = sent
    /\ raw_error' = e
    /\ stage_error' = TgClassify(e)
    /\ delivered' = Append(delivered, Acked(sent))
    /\ pc' = TgFailurePc(tg_runs)
    /\ flow_error' = IF pc' = "failed" THEN FlowClassify(stage_error') ELSE flow_error
    /\ UNCHANGED <<EnvVars, news, gen_runs, tg_runs, llm_calls, search,
                   message_to_send, i, sleeps, sent_ok>>

\* tele 260-284: the POST of one chunk is answered 200; pause, next iteration
PostAccepted ==
    /\ pc = "sending" /\ i < Len(message_to_send)
    /\ \E status \in StatusCodes :
         /\ ResponseOk(status)
         /\ posts' = Append(posts, Post(ChunkAt(message_to_send, i), status, FALSE))
         /\ sent_ok' = Append(sent_ok, ChunkAt(message_to_send, i))
         /\ sleeps' = sleeps + 1
         /\ i' = i + 1
         /\ IF i + 1 = Len(message_to_send)
            THEN pc' = "done" /\ delivered' = Append(delivered, Acked(posts'))
            ELSE pc' = "sending" /\ delivered' = delivered
    /\ UNCHANGED <<EnvVars, news, gen_runs, tg_runs, llm_calls, search, raw_error,
                   stage_error, flow_error, message_to_send>>

\* tele 277-281: the POST is answered with another status; the exception raised
\* there is caught by the except block of the same iteration
PostRefused ==
    /\ pc = "sending" /\ i < Len(message_to_send)
    /\ \E status \in StatusCodes :
         /\ ~ResponseOk(status)
         /\ TgRaise(ErrTgStatus(status),
                    Append(posts, Post(ChunkAt(message_to_send, i), status, FALSE)))

\* tele 271, 286: requests.post raises
PostRaises ==
    /\ pc = "sending" /\ i < Len(message_to_send)
    /\ \E e \in TgRawErrors :
         TgRaise(e, Append(posts, Post(ChunkAt(message_to_send, i), 0, TRUE)))

Next ==
    \/ TeleSearch
    \/ TeleNoSearchData
    \/ TeleModelRaises
    \/ TeleModelAnswers
    \/ AgentRaises
    \/ AgentAnswers
    \/ ToTelegramNoCredentials
    \/ ToTelegramChunk
    \/ PostAccepted
    \/ PostRefused
    \/ PostRaises

Spec == Init /\ [][Next]_vars

----------------------------------------------------------------------------
(* The chunking of to_telegram on arbitrary texts: generate_news has        *)
(* returned a text of at most MaxTokens tokens, the credentials are set.    *)

TextAlphabet == {NL, " ", "a", "B3996", "B3999"}

Texts == UNION {[1..n -> TextAlphabet] : n \in 0..MaxTokens}

InitChunk ==
    /\ variant \in {"tele", "fixed"}
    /\ TELEGRAM_TOKEN = "set"
    /\ TELEGRAM_CHAT_ID = "set"
    /\ pc = "dispatch"
    /\ news \in Texts
    /\ gen_runs = 1
    /\ tg_runs = 0
    /\ llm_calls = 1
    /\ search = <<>>
    /\ raw_error = NoError
    /\ stage_error = NoError
    /\ flow_error = NoError
    /\ message_to_send = <<>>
    /\ i = 0
    /\ posts = <<>>
    /\ sleeps = 0
    /\ delivered = <<>>
    /\ sent_ok = <<>>

NextChunk == ToTelegramChunk

SpecChunk == InitChunk /\ [][NextChunk]_vars

----------------------------------------------------------------------------
(* Helpers of the properties *)

\* the chunks of a list, concatenated in order
RECURSIVE Concat(_)
Concat(msgs) == IF msgs = <<>> THEN <<>> ELSE Head(msgs) \o Concat(Tail(msgs))

\* c with one trailing "\n\n" removed gives text, or c is text as it stands
Reconstructs(c, text) ==
    \/ c = text
    \/ /\ Len(c) >= 2
       /\ SubSeq(c, Len(c) - 1, Len(c)) = SEP
       /\ SubSeq(c, 1, Len(c) - 2) = text

\* parts[a..b], each followed by "\n\n"
RECURSIVE JoinSep(_, _, _)
JoinSep(parts, a, b) == IF a > b THEN <<>> ELSE parts[a] \o SEP \o JoinSep(parts, a + 1, b)

\* no paragraph of the text is empty or whitespace-only
NoBlankParagraph(text) == \A k \in 1..Len(Split(text)) : Strip(Split(text)[k]) # <<>>

\* the characters of s that are not whitespace, in order
NonWhitespace(s) == SelectSeq(s, LAMBDA t : t \notin Whitespace)

\* an execution of to_telegram has built message_to_send from news
Chunked == pc \in {"sending", "done"} /\ tg_runs > 0 /\ Truthy(TELEGRAM_TOKEN) /\ Truthy(TELEGRAM_CHAT_ID)

GenMessages == {MsgQuota, MsgAuth, MsgTimeout, MsgSafety, MsgGeneric}
TgMessages == {MsgNetwork, MsgTgTimeout, MsgSSL, MsgUnknown}
FlowMessages == {FlowGeneration, FlowDelivery, FlowTimeout, FlowCritical}

PostFailed(p) == p.raised \/ p.status # 200

----------------------------------------------------------------------------
(* C1..C10 *)

\* C1 (as claimed): every chunk of message_to_send, and so every text POSTed,
\* has at most MAX_LENGTH characters.
C1_ChunksWithinCeiling ==
    /\ \A k \in 1..Len(message_to_send) : StrLen(message_to_send[k]) <= MAX_LENGTH
    /\ \A k \in 1..Len(posts) : StrLen(posts[k].text) <= MAX_LENGTH

\* C2 (as claimed): for every text, the chunks concatenated in order, with the
\* one trailing "\n\n" removed, are the original text.
C2_RoundTripAnyText == Chunked => Reconstructs(Concat(message_to_send), news)

\* C2 (amended): a text of at most MAX_LENGTH characters is the single chunk;
\* a longer text none of whose paragraphs is empty or whitespace-only is the
\* concatenation of the chunks without its trailing "\n\n"; for any longer text
\* the chunks hold the text's non-whitespace characters, all of them, in order.
C2_RoundTrip ==
    Chunked =>
        LET c == Concat(message_to_send)
        IN  /\ StrLen(news) <= MAX_LENGTH => message_to_send = <<news>>
            /\ StrLen(news) > MAX_LENGTH /\ NoBlankParagraph(news) => c = news \o SEP
            /\ StrLen(news) > MAX_LENGTH => NonWhitespace(c) = NonWhitespace(news)

C2_Witness ==
    /\ Chunked
    /\ StrLen(news) > MAX_LENGTH
    /\ NoBlankParagraph(news)
    /\ Len(message_to_send) >= 2

\* C3: for a text longer than MAX_LENGTH every chunk is one or more whole,
\* consecutive paragraphs of news.split('\n\n'), each followed by "\n\n".
C3_WholeParagraphs ==
    Chunked /\ StrLen(news) > MAX_LENGTH =>
        LET parts == Split(news)
        IN  \A k \in 1..Len(message_to_send) :
                \E a \in 1..Len(parts), b \in 1..Len(parts) :
                    a <= b /\ message_to_send[k] = JoinSep(parts, a, b)

C3_Witness ==
    /\ Chunked
    /\ Len(message_to_send) >= 2
    /\ \E k \in 1..Len(Split(news)) : StrLen(Split(news)[k]) > MAX_LENGTH

\* C4 (as claimed): a stage that fails on every execution is executed exactly
\* 3 times before main_flow gets its error.
C4_ThreeExecutions ==
    pc = "failed" => IF news = NoNews THEN gen_runs = 3 ELSE tg_runs = 3

\* C4 (amended): a stage that fails on every execution is executed exactly
\* retries + 1 = 4 times (the first execution and 3 retries) before main_flow
\* gets its error; no stage is executed more often.
C4_RetryBound ==
    /\ gen_runs <= TaskRetries + 1 /\ tg_runs <= TaskRetries + 1
    /\ pc = "failed" =>
          IF news = NoNews THEN gen_runs = TaskRetries + 1 /\ tg_runs = 0
          ELSE tg_runs = TaskRetries + 1
    /\ pc \in {"generate", "summarize"} => gen_runs <= TaskRetries
    /\ pc \in {"dispatch", "sending"} => gen_runs >= 1

C4_Witness == pc = "failed" /\ news # NoNews /\ tg_runs = TaskRetries + 1 /\ gen_runs = 1

\* C5 (as claimed): the message a stage raises holds no secret that the raw
\* error text it caught holds, in whichever branch the text is classified.
C5_Sanitized ==
    \A x \in Secrets : Has(raw_error, x) => ~Has(stage_error, x)

\* C6: with TELEGRAM_TOKEN or TELEGRAM_CHAT_ID missing or empty, to_telegram
\* POSTs nothing, returns without raising and is executed once.
C6_CredentialGuard ==
    ~Truthy(TELEGRAM_TOKEN) \/ ~Truthy(TELEGRAM_CHAT_ID) =>
        /\ posts = <<>> /\ sleeps = 0 /\ pc # "sending"
        /\ tg_runs <= 1
        /\ \A k \in 1..Len(delivered) : delivered[k] = 0
        /\ tg_runs = 1 => pc = "done" /\ stage_error = NoError /\ flow_error = NoError

C6_Witness ==
    /\ Truthy(TELEGRAM_TOKEN) /\ ~Truthy(TELEGRAM_CHAT_ID)
    /\ tg_runs = 1 /\ pc = "done"
    /\ StrLen(news) > MAX_LENGTH

\* C7: in one execution of to_telegram the k-th POST carries the k-th chunk,
\* every POST before the last was answered 200 and followed by the pause, and
\* when the execution returns every chunk was POSTed once and answered 200.
C7_PostsInOrder ==
    /\ Len(posts) <= Len(message_to_send)
    /\ \A k \in 1..Len(posts) : posts[k].text = BuildMessages(news)[k]
    /\ \A k \in 1..(Len(posts) - 1) : ~PostFailed(posts[k])
    /\ sleeps >= Len(posts) - 1
    /\ sleeps = Acked(posts)
    /\ pc = "done" /\ Truthy(TELEGRAM_TOKEN) /\ Truthy(TELEGRAM_CHAT_ID) =>
          /\ Len(posts) = Len(BuildMessages(news))
          /\ \A k \in 1..Len(posts) : ~PostFailed(posts[k])

C7_Witness ==
    /\ pc = "done"
    /\ Len(posts) = 3
    /\ \A k \in 1..Len(posts) : ~PostFailed(posts[k])

\* C8: once a POST is answered with a status other than 200 or raises, the
\* execution raises one of to_telegram's messages and POSTs no later chunk.
C8_FailFast ==
    \A k \in 1..Len(posts) :
        PostFailed(posts[k]) =>
            /\ k = Len(posts)
            /\ pc \in {"dispatch", "failed"}
            /\ stage_error \in TgMessages
            /\ delivered # <<>> /\ delivered[Len(delivered)] = k - 1

C8_Witness ==
    /\ posts # <<>>
    /\ ~posts[Len(posts)].raised /\ posts[Len(posts)].status # 200
    /\ Len(posts) = 2
    /\ Len(message_to_send) = 3

\* C9 (as claimed): when main_flow ends in failure, no chunk was delivered
\* during the run.
C9_NothingDeliveredOnFailure ==
    pc = "failed" => \A k \in 1..Len(delivered) : delivered[k] = 0

\* C9 (amended): when main_flow ends in failure, no execution of to_telegram
\* delivered the whole summary: each delivered only the chunks before the one
\* whose POST failed (possibly some), and none at all if generate_news failed.
C9_NoCompleteDeliveryOnFailure ==
    pc = "failed" =>
        /\ news = NoNews => delivered = <<>>
        /\ \A k \in 1..Len(delivered) : delivered[k] < Len(BuildMessages(news))

C9_Witness ==
    /\ pc = "failed"
    /\ \E k \in 1..Len(delivered) : delivered[k] > 0

\* C10: to_telegram is invoked only after generate_news returned a text; when
\* generate_news failed on all its executions main_flow raises and nothing is
\* POSTed.
C10_GenerateBeforeDispatch ==
    /\ (tg_runs > 0 \/ posts # <<>> \/ pc \in {"dispatch", "sending", "done"}) =>
          news # NoNews /\ gen_runs >= 1
    /\ news = NoNews /\ gen_runs = TaskRetries + 1 =>
          /\ pc = "failed"
          /\ flow_error \in FlowMessages
          /\ tg_runs = 0 /\ posts = <<>> /\ delivered = <<>>

C10_Witness == pc = "failed" /\ news = NoNews /\ gen_runs = TaskRetries + 1 /\ llm_calls > 0

----------------------------------------------------------------------------
(* main_flow's except block on arbitrary exception texts: an exception whose *)
(* text has at most MaxErrWords words was raised inside the try block.       *)

\* longest exception text, in words, of the handler specification
MaxErrWords == 2

ErrWords == {"News", "Generation", "Telegram", "Send", "Timeout", "boom", "bot123:abc"}

ErrTexts == UNION {[1..n -> ErrWords] : n \in 0..MaxErrWords}

InitFlow ==
    /\ variant \in {"tele", "fixed"}
    /\ TELEGRAM_TOKEN = "set"
    /\ TELEGRAM_CHAT_ID = "set"
    /\ pc = "handler"
    /\ news = NoNews
    /\ gen_runs = TaskRetries + 1
    /\ tg_runs = 0
    /\ llm_calls = 0
    /\ search = <<>>
    /\ raw_error = NoError
    /\ stage_error \in ErrTexts
    /\ flow_error = NoError
    /\ message_to_send = <<>>
    /\ i = 0
    /\ posts = <<>>
    /\ sleeps = 0
    /\ delivered = <<>>
    /\ sent_ok = <<>>

\* tele 339-364: classify str(e), raise the coarse message
FlowHandler ==
    /\ pc = "handler"
    /\ flow_error' = FlowClassify(stage_error)
    /\ pc' = "failed"
    /\ UNCHANGED <<EnvVars, news, gen_runs, tg_runs, llm_calls, search, raw_error,
                   stage_error, SendVars>>

NextFlow == FlowHandler

SpecFlow == InitFlow /\ [][NextFlow]_vars

----------------------------------------------------------------------------
(* C11..C18 *)

\* C11 (as claimed): an empty answer of the language model makes generate_news
\* raise; neither the placeholder nor the empty string is ever returned to
\* main_flow and handed to to_telegram.
C11_NoPlaceholderForwarded ==
    /\ news # <<PLACEHOLDER>> /\ news # <<>>
    /\ \A k \in 1..Len(posts) : posts[k].text # <<PLACEHOLDER>> /\ posts[k].text # <<>>

\* C12: the message main_flow raises is one of its four constants, chosen by
\* the first match among: "news" or "generation", then "telegram" or "send",
\* then "timeout", else the critical failure; the caught text is not in it.
C12_FlowClassification ==
    pc = "failed" =>
        LET s == Lower(stage_error)
            gen == Has(s, "news") \/ Has(s, "generation")
            tg == Has(s, "telegram") \/ Has(s, "send")
            to == Has(s, "timeout")
        IN  /\ flow_error \in FlowMessages
            /\ gen => flow_error = FlowGeneration
            /\ ~gen /\ tg => flow_error = FlowDelivery
            /\ ~gen /\ ~tg /\ to => flow_error = FlowTimeout
            /\ ~gen /\ ~tg /\ ~to => flow_error = FlowCritical
            /\ \A x \in Secrets : ~Has(flow_error, x)

C12_Witness ==
    /\ pc = "failed"
    /\ Has(stage_error, "Timeout") /\ Has(stage_error, "Telegram")
    /\ flow_error = FlowDelivery

\* the number of paragraphs held by the first k chunks, when the chunks are
\* the paragraphs in order with none left out
PartsThrough(parts, msgs, k) ==
    CHOOSE b \in 0..Len(parts) : JoinSep(parts, 1, b) = Concat(SubSeq(msgs, 1, k))

\* C13 (as claimed): a chunk is closed before paragraph p only if the chunk
\* with p and its "\n\n" appended would be longer than MAX_LENGTH; a paragraph
\* that brings the chunk to MAX_LENGTH or less stays in the chunk.  Stated for
\* the texts none of whose paragraphs is left out of the chunks.
C13_GreedyUpToCeiling ==
    LET parts == Split(news)
        msgs == message_to_send
    IN  ( /\ Chunked /\ StrLen(news) > MAX_LENGTH
          /\ Concat(msgs) = news \o SEP
          /\ \A k \in 1..Len(msgs) :
                \E b \in 0..Len(parts) : JoinSep(parts, 1, b) = Concat(SubSeq(msgs, 1, k)) )
        => \A k \in 1..(Len(msgs) - 1) :
              StrLen(msgs[k]) + StrLen(parts[PartsThrough(parts, msgs, k) + 1]) + 2
                  > MAX_LENGTH

\* the strings search_news_in_ddgs returns for a failed search
SearchErrorStrings ==
    {"Error: Search rate limit hit. Could not fetch news.",
     "Error: Search timed out.",
     "Error: Search failed due to an unexpected system error."}

\* a search result that is a non-empty list
NonEmptyList(r) == ~r.is_str /\ r.items > 0

\* C14: in the two-phase variant a failed search never raises, it yields one of
\* three constant strings; the language model is called if and only if one of
\* the two searches returned a non-empty list, and otherwise generate_news
\* raises without a model call.
C14_SearchGate ==
    [][ /\ pc = "generate" /\ variant = "tele" =>
              /\ pc' = "summarize"
              /\ gen_runs' = gen_runs /\ stage_error' = stage_error
              /\ Len(search') = 2
              /\ \A k \in 1..2 :
                    search'[k].is_str =>
                        search'[k].text \in SearchErrorStrings /\ search'[k].items = 0
        /\ pc = "summarize" =>
              LET usable == NonEmptyList(search[1]) \/ NonEmptyList(search[2])
              IN  /\ llm_calls' = llm_calls + 1 <=> usable
                  /\ ~usable =>
                        /\ llm_calls' = llm_calls
                        /\ gen_runs' = gen_runs + 1
                        /\ stage_error' = MsgGeneric
                        /\ news' = news
                        /\ pc' \in {"generate", "failed"}
      ]_vars

C14_Witness ==
    /\ variant = "tele"
    /\ gen_runs = 2 /\ llm_calls = 1
    /\ raw_error = ErrNoSearch /\ stage_error = MsgGeneric

\* the steps a run still can take: <<steps of the executions of generate_news,
\* steps of the executions of to_telegram>>, compared lexicographically; a text
\* of n tokens has at most n + 1 paragraphs, hence at most n + 1 chunks
Measure ==
    <<IF pc \in {"generate", "summarize"}
      THEN 2 * (TaskRetries + 1 - gen_runs) - (IF pc = "summarize" THEN 1 ELSE 0)
      ELSE 0,
      IF pc \in {"dispatch", "sending"}
      THEN (TaskRetries + 1 - tg_runs) * (Len(news) + 2)
           + (IF pc = "sending" THEN Len(message_to_send) - i ELSE 0)
      ELSE 0>>

Less(m, n) == m[1] < n[1] \/ (m[1] = n[1] /\ m[2] < n[2])

\* C15: every step of a run lowers a measure bounded by the retries and the
\* number of chunks, and a send loop that has not ended has a chunk to POST
\* (the other positions always have a step), so every run
\* ends after at most retries + 1 executions of each stage and one POST per
\* chunk and execution; it ends normally or with main_flow raising one of its
\* four messages.
C15_Terminates ==
    [][ /\ Less(Measure', Measure)
        /\ Measure'[1] >= 0 /\ Measure'[2] >= 0
        /\ Measure'[1] <= 2 * (TaskRetries + 1)
        /\ Measure'[2] <= (TaskRetries + 1) * (Len(news') + 2)
        /\ Len(message_to_send') <= Len(news') + 1
        /\ gen_runs' <= TaskRetries + 1 /\ llm_calls' <= gen_runs'
        /\ tg_runs' <= TaskRetries + 1
        /\ Len(posts') <= Len(message_to_send')
        /\ Len(sent_ok') <= tg_runs' * (Len(news') + 1)
        /\ pc' \in {"generate", "summarize", "dispatch", "sending", "done", "failed"}
        /\ pc' = "sending" => (ENABLED PostAccepted)'
        /\ pc' \in {"done", "failed"} => Measure' = <<0, 0>>
        /\ pc' = "failed" => flow_error' \in FlowMessages
        /\ pc' # "failed" => flow_error' = NoError
      ]_vars

C15_Witness ==
    /\ pc = "done"
    /\ gen_runs = TaskRetries + 1 /\ tg_runs = TaskRetries + 1
    /\ Len(posts) = 3

\* C16: a run that ended because generate_news failed (to_telegram never ran)
\* reports the generation-failure message, and a run that ended because
\* to_telegram failed reports the delivery-failure message.
C16_FailureAttributed ==
    pc = "failed" =>
        IF tg_runs = 0 THEN flow_error = FlowGeneration
                       ELSE flow_error = FlowDelivery

\* the chunks answered 200 by executions that delivered ds[1], ds[2], ... chunks,
\* each starting at the first chunk
RECURSIVE PrefixesOf(_, _)
PrefixesOf(chunks, ds) ==
    IF ds = <<>> THEN <<>>
    ELSE SubSeq(chunks, 1, Head(ds)) \o PrefixesOf(chunks, Tail(ds))

\* C17 (as claimed, last clause): a chunk delivered in a failed execution of
\* to_telegram is delivered again in the next execution, i.e. the next
\* execution delivers at least as many chunks.
C17_Redelivered ==
    \A k \in 1..(Len(delivered) - 1) : delivered[k + 1] >= delivered[k]

\* C17 (amended): every execution of to_telegram chunks the same text and
\* starts at the first chunk, so the chunks answered 200 in a run are a
\* concatenation of prefixes of the chunk sequence, one per execution: a proper
\* prefix for every failed execution and the whole sequence for a successful
\* one (nothing when a credential is missing). A later execution delivers a chunk again only if it gets that far.
C17_PrefixesPerAttempt ==
    LET chunks == BuildMessages(news)
        running == IF pc = "sending" THEN <<Acked(posts)>> ELSE <<>>
    IN  /\ pc = "sending" =>
            /\ message_to_send = chunks
            /\ i = Len(posts) /\ Acked(posts) = Len(posts)
            /\ \A k \in 1..Len(posts) : posts[k].text = chunks[k]
        /\ sent_ok = PrefixesOf(chunks, delivered \o running)
        /\ Len(delivered) = IF pc = "sending" THEN tg_runs - 1 ELSE tg_runs
        /\ \A k \in 1..Len(delivered) :
             IF k = Len(delivered) /\ pc = "done"
             THEN delivered[k] = IF Truthy(TELEGRAM_TOKEN) /\ Truthy(TELEGRAM_CHAT_ID)
                                 THEN Len(chunks) ELSE 0
             ELSE delivered[k] < Len(chunks)

C17_Witness ==
    /\ pc = "done"
    /\ Len(message_to_send) >= 2
    /\ delivered = <<1, 0, Len(message_to_send)>>
    /\ Len(sent_ok) = 1 + Len(message_to_send)
    /\ sent_ok[2] = sent_ok[1]

\* C18: a run that has ended completed normally exactly when generate_news
\* returned a text and either a credential is missing and no POST was made, or
\* the last execution of to_telegram POSTed every chunk of that text, in order,
\* and every POST was answered 200.
C18_CompletesIff ==
    pc \in {"done", "failed"} =>
        LET chunks == BuildMessages(news)
            skipped == /\ ~Truthy(TELEGRAM_TOKEN) \/ ~Truthy(TELEGRAM_CHAT_ID)
                       /\ posts = <<>> /\ sent_ok = <<>>
            allSent == /\ Truthy(TELEGRAM_TOKEN) /\ Truthy(TELEGRAM_CHAT_ID)
                       /\ Len(posts) = Len(chunks)
                       /\ \A k \in 1..Len(posts) :
                            /\ posts[k].text = chunks[k]
                            /\ ~posts[k].raised /\ posts[k].status = 200
        IN  pc = "done" <=> (news # NoNews /\ (skipped \/ allSent))

C18_Witness ==
    /\ pc = "done"
    /\ Truthy(TELEGRAM_TOKEN) /\ Truthy(TELEGRAM_CHAT_ID)
    /\ tg_runs >= 2
    /\ Len(posts) >= 2
    /\ \A k \in 1..Len(posts) : posts[k].status = 200

====
